---- MODULE Spec2Model ----
(***************************************************************************)
(* valtra-go: Value[T] (value.go), the built-in validations and            *)
(* transformations, and the Collector (collector.go).                      *)
(*                                                                         *)
(* A Go string is the sequence of its bytes: an ASCII byte is written as   *)
(* its character, any other byte as its two hexadecimal digits.  An error  *)
(* is the one-element sequence of its message text, and the nil error is   *)
(* the empty sequence.  A []error is a slice header (ptr, len, cap) into a *)
(* heap of backing arrays, because Value is copied by value while the      *)
(* backing array of errs is not.                                           *)
(***************************************************************************)
EXTENDS Integers, Sequences, FiniteSets, TLC

\* ------------------------------------------------------------------ bounds
MaxSteps == 2      \* Validate/Transform calls made by the caller in one run
MaxBranchSteps == 4 \* the same, in the runs that continue two chains from one Value
MaxFns == 2        \* checks or mappers passed to one Validate/Transform call
MaxCollects == 2   \* Collect calls made by the caller in one run
MaxInt == 2        \* integers held and integer bounds range over -MaxInt..MaxInt
MaxLen == 3        \* longest string and slice checked against a length bound
MaxThreadCalls == 1 \* Validate and Transform calls of each goroutine
MaxThreadCollects == 2 \* Collect calls of each goroutine, each with its own Collector
MaxSharedCollects == 1 \* Collect calls of each goroutine on a shared Collector
MaxEmailLen == 6   \* longest text of the exhaustive Email runs

Slots == {1, 2}                     \* caller variables holding a Value[string]
InputStrings == { <<>>, <<" ", "a", "A">> }
NameArgs == { <<>>, <<"">>, <<"age">> }   \* the variadic name argument of Val
\* the same, with calls that supply more than one name
ManyNameArgs == NameArgs \cup { <<"age", "years">>, <<"", "years">> }

\* ------------------------------------------------------------------ errors
NoErr == <<>>
Errorf(msg) == <<msg>>

\* An argument of a formatting call: a string or an int.
GoString(s) == <<"string", s>>
GoInt(n) == <<"int", n>>
\* How the verbs %s and %v print an argument: a string as it is (its text is
\* not scanned for verbs), an int in decimal.
Formatted(arg) == IF arg[1] = "int" THEN ToString(arg[2]) ELSE arg[2]

\* fmt.Sprintf: format is the format string cut into its verbs and the
\* literal text between them; each verb consumes the next argument.
RECURSIVE Sprintf(_, _)
Sprintf(format, args) ==
    IF format = <<>> THEN ""
    ELSE IF Head(format) \in {"%s", "%v"}
    THEN IF args = <<>>
         THEN "%!" \o (IF Head(format) = "%s" THEN "s" ELSE "v") \o "(MISSING)"
                   \o Sprintf(Tail(format), args)
         ELSE Formatted(Head(args)) \o Sprintf(Tail(format), Tail(args))
    ELSE Head(format) \o Sprintf(Tail(format), args)

\* ------------------------------------------------------------ Go []error
\* The empty literal []error{}: no backing storage, len 0, cap 0.
EmptySlice == [ptr |-> 0, len |-> 0, cap |-> 0]

\* The elements of slice s, read through the heap h.
SliceElems(h, s) == IF s.len = 0 THEN <<>> ELSE SubSeq(h[s.ptr], 1, s.len)

\* Capacity the Go runtime gives a grown slice of 16-byte elements below the
\* 256-element threshold: the needed length if it exceeds double the old
\* capacity, else double the old capacity.
GrowCap(oldCap, need) == IF need > 2 * oldCap THEN need ELSE 2 * oldCap

Nils(n) == [k \in 1..n |-> NoErr]

\* append(s, elems...): writes in place when the capacity suffices, otherwise
\* allocates a new backing array and copies.  Result: the new heap and the
\* returned slice header.
SliceAppend(h, s, elems) ==
    LET need == s.len + Len(elems)
    IN IF need <= s.cap
       THEN [heap |-> IF Len(elems) = 0 THEN h
                      ELSE [h EXCEPT ![s.ptr] =
                              [k \in 1..s.cap |->
                                 IF k > s.len /\ k <= need
                                 THEN elems[k - s.len] ELSE @[k]]],
             slice |-> [s EXCEPT !.len = need]]
       ELSE LET newCap == GrowCap(s.cap, need)
            IN [heap |-> Append(h, SliceElems(h, s) \o elems \o Nils(newCap - need)),
                slice |-> [ptr |-> Len(h) + 1, len |-> need, cap |-> newCap]]

\* ----------------------------------------------------------------- strings
\* The runes of the model besides ASCII, with their UTF-8 encodings:
\* U+00EB (e with diaeresis), U+00CB (its capital) and U+FFFD (utf8.RuneError).
Utf8 == [r \in {"U+00EB", "U+00CB", "U+FFFD"} |->
            CASE r = "U+00EB" -> <<"C3", "AB">>
              [] r = "U+00CB" -> <<"C3", "8B">>
              [] r = "U+FFFD" -> <<"EF", "BF", "BD">>]
\* The bytes above 0x7F of the model.
HighBytes == { "C3", "AB", "8B", "EF", "BF", "BD" }

IsPrefix(p, s) == Len(p) <= Len(s) /\ SubSeq(s, 1, Len(p)) = p

\* Faulty variant of Runes: every byte is taken as a rune of its own.
RunesAsBytes(s) == s

\* Decoding as range-over-string and the regexp package do it: a well-formed
\* encoding is one rune, any other byte above 0x7F is U+FFFD of width 1.
RECURSIVE Runes(_)
Runes(s) ==
    IF s = <<>> THEN <<>>
    ELSE IF \E r \in DOMAIN Utf8 : IsPrefix(Utf8[r], s)
    THEN LET r == CHOOSE r \in DOMAIN Utf8 : IsPrefix(Utf8[r], s)
         IN <<r>> \o Runes(SubSeq(s, Len(Utf8[r]) + 1, Len(s)))
    ELSE IF Head(s) \in HighBytes THEN <<"U+FFFD">> \o Runes(Tail(s))
    ELSE <<Head(s)>> \o Runes(Tail(s))

RECURSIVE Encode(_)
Encode(rs) ==
    IF rs = <<>> THEN <<>>
    ELSE (IF Head(rs) \in DOMAIN Utf8 THEN Utf8[Head(rs)] ELSE <<Head(rs)>>)
            \o Encode(Tail(rs))

\* The case pairs of the model: the ASCII letters and U+00EB / U+00CB.
UpperOf ==
    ("a" :> "A") @@ ("b" :> "B") @@ ("c" :> "C") @@ ("d" :> "D") @@
    ("e" :> "E") @@ ("f" :> "F") @@ ("g" :> "G") @@ ("h" :> "H") @@
    ("i" :> "I") @@ ("j" :> "J") @@ ("k" :> "K") @@ ("l" :> "L") @@
    ("m" :> "M") @@ ("n" :> "N") @@ ("o" :> "O") @@ ("p" :> "P") @@
    ("q" :> "Q") @@ ("r" :> "R") @@ ("s" :> "S") @@ ("t" :> "T") @@
    ("u" :> "U") @@ ("v" :> "V") @@ ("w" :> "W") @@ ("x" :> "X") @@
    ("y" :> "Y") @@ ("z" :> "Z") @@ ("U+00EB" :> "U+00CB")
LowerOf ==
    ("A" :> "a") @@ ("B" :> "b") @@ ("C" :> "c") @@ ("D" :> "d") @@
    ("E" :> "e") @@ ("F" :> "f") @@ ("G" :> "g") @@ ("H" :> "h") @@
    ("I" :> "i") @@ ("J" :> "j") @@ ("K" :> "k") @@ ("L" :> "l") @@
    ("M" :> "m") @@ ("N" :> "n") @@ ("O" :> "o") @@ ("P" :> "p") @@
    ("Q" :> "q") @@ ("R" :> "r") @@ ("S" :> "s") @@ ("T" :> "t") @@
    ("U" :> "u") @@ ("V" :> "v") @@ ("W" :> "w") @@ ("X" :> "x") @@
    ("Y" :> "y") @@ ("Z" :> "z") @@ ("U+00CB" :> "U+00EB")

\* Faulty variant of ToUpperRune: swaps the case of a letter.
ToUpperRuneSwaps(r) ==
    IF r \in DOMAIN UpperOf THEN UpperOf[r]
    ELSE IF r \in DOMAIN LowerOf THEN LowerOf[r] ELSE r

\* unicode.ToUpper and unicode.ToLower
ToUpperRune(r) == IF r \in DOMAIN UpperOf THEN UpperOf[r] ELSE r
ToLowerRune(r) == IF r \in DOMAIN LowerOf THEN LowerOf[r] ELSE r

\* strings.ToUpper and strings.ToLower map the runes of s and encode the
\* results, so a byte that is not part of a well-formed encoding comes out as
\* the three bytes of U+FFFD.
IsASCII(s) == \A k \in 1..Len(s) : s[k] \notin HighBytes
ToUpper(s) ==
    IF IsASCII(s) THEN [k \in 1..Len(s) |-> ToUpperRune(s[k])]
    ELSE LET rs == Runes(s) IN Encode([k \in 1..Len(rs) |-> ToUpperRune(rs[k])])
ToLower(s) ==
    IF IsASCII(s) THEN [k \in 1..Len(s) |-> ToLowerRune(s[k])]
    ELSE LET rs == Runes(s) IN Encode([k \in 1..Len(rs) |-> ToLowerRune(rs[k])])
IsSpace(c) == c \in {" ", "\t", "\n", "\r"}

RECURSIVE TrimLeft(_)
TrimLeft(s) == IF s # <<>> /\ IsSpace(Head(s)) THEN TrimLeft(Tail(s)) ELSE s
RECURSIVE TrimRight(_)
TrimRight(s) ==
    IF s # <<>> /\ IsSpace(s[Len(s)]) THEN TrimRight(SubSeq(s, 1, Len(s) - 1)) ELSE s
StringsTrimSpace(s) == TrimRight(TrimLeft(s))

\* ------------------------------------------------------------------- state
VARIABLES
    heap,       \* backing arrays of all []error slices, by address 1..Len(heap)
    vals,       \* caller variables: slot -> Value[T]
    coll,       \* the Collector: its errs slice header
    held,       \* the slice the caller got from Errors() of the Collector or a Value
    panicked,   \* a run-time panic unwound the caller
    steps,      \* calls made so far (Val, Validate, Transform, caller append)
    collects,   \* Collect calls made so far
    last,       \* the last Validate/Transform/Collect call: arguments, receiver before it,
                \* result
    built,      \* slot -> the error list its Value reported when it was returned
    collected,  \* the error list of each Value handed to Collect so far, in call order
    thr         \* the goroutines of the concurrent runs: their Collectors and where each
                \* stands in its Collect call

vars == <<heap, vals, coll, held, panicked, steps, collects, last, built, collected, thr>>

NoCall == [op |-> "none", src |-> 0, dst |-> 0, fns |-> <<>>,
           pre |-> [value |-> <<>>, name |-> "", errs |-> <<>>],
           precoll |-> <<>>, trace |-> <<>>, names |-> <<>>, ret |-> <<>>]

\* What Value.Errors() reports for the Value in r, and Collector.Errors().
Errors(h, r) == SliceElems(h, r.errs)
Snapshot(h, r) == [value |-> r.value, name |-> r.name, errs |-> Errors(h, r)]

\* Where a goroutine stands in Collect: outside it ("idle"), reading the words
\* of c.errs ("load"), about to append ("append"), or writing the words of the
\* new slice back ("store").
Words == { "ptr", "len", "cap" }
ThreadsStart(target, limit) ==
    [ colls |-> [c \in Slots |-> [errs |-> EmptySlice]],
      target |-> target,
      limit |-> limit,
      pc |-> [t \in Slots |-> "idle"],
      recv |-> [t \in Slots |-> [value |-> <<>>, name |-> "", errs |-> EmptySlice]],
      hdr |-> [t \in Slots |-> EmptySlice],
      words |-> [t \in Slots |-> { }],
      base |-> [t \in Slots |-> 0],
      calls |-> [t \in Slots |-> 0],
      ncollect |-> [t \in Slots |-> 0],
      collected |-> [t \in Slots |-> <<>>],
      ret |-> [t \in Slots |-> <<>>],
      torn |-> [t \in Slots |-> FALSE],
      overlap |-> FALSE,
      corrupt |-> FALSE ]
\* No goroutine besides the caller.
NoThreads == ThreadsStart([t \in Slots |-> 1], 0)

\* A panic ends the caller: no call follows it.
CanCall == ~panicked

\* --------------------------------------------------------------------- Val
\* Faulty variant of Val: takes the first name even when it is empty.
ValAnyName(value, name) ==
    [value |-> value,
     name |-> IF Len(name) > 0 THEN name[1] ELSE "value",
     errs |-> EmptySlice]

\* Val(value, name...)
Val(value, name) ==
    [value |-> value,
     name |-> IF Len(name) > 0 /\ name[1] # "" THEN name[1] ELSE "value",
     errs |-> EmptySlice]

\* ------------------------------------------------------------- validations
\* A check or mapper passed by the caller: the factory that made it, its bound
\* and its variadic errMssg argument.
Fn(kind, bound, msg) == [kind |-> kind, bound |-> bound, msg |-> msg]

Required(msg) == Fn("Required", 0, msg)              \* Required[string]
RequiredInt(msg) == Fn("Required[int]", 0, msg)      \* Required[int]
Max(max, msg) == Fn("Max", max, msg)                 \* Max[int]
Min(min, msg) == Fn("Min", min, msg)                 \* Min[int]
MaxLengthString(max, msg) == Fn("MaxLengthString", max, msg)
MaxLengthSlice(max, msg) == Fn("MaxLengthSlice", max, msg)
MaxLengthMap(max, msg) == Fn("MaxLengthMap", max, msg)
MinLengthString(min, msg) == Fn("MinLengthString", min, msg)
MinLengthSlice(min, msg) == Fn("MinLengthSlice", min, msg)
MinLengthMap(min, msg) == Fn("MinLengthMap", min, msg)
Email(msg) == Fn("Email", 0, msg)

Checks == { Required(<<>>), MinLengthString(2, <<>>), MaxLengthString(1, <<>>) }

\* Faulty variant of FailWith: passes the custom message as the format string.
FailWithAsFormat(errMssg, default) ==
    IF Len(errMssg) > 0 /\ errMssg[1] # ""
    THEN Errorf(Sprintf(<<errMssg[1]>>, <<>>))
    ELSE Errorf(default)

\* The error a failing built-in returns: fmt.Errorf("%s", errMssg[0]) when a
\* custom message is given and non-empty, else the default text.
FailWith(errMssg, default) ==
    IF Len(errMssg) > 0 /\ errMssg[1] # ""
    THEN Errorf(Sprintf(<<"%s">>, <<GoString(errMssg[1])>>))
    ELSE Errorf(default)

\* v.value == zero for T = string
RequiredCheck(fn, v) ==
    IF v.value = <<>>
    THEN FailWith(fn.msg, Sprintf(<<"%s", " is required">>, <<GoString(v.name)>>))
    ELSE NoErr

\* Faulty variant of RequiredIntCheck: rejects every value below 1.
RequiredIntCheckPositive(fn, v) ==
    IF v.value < 1
    THEN FailWith(fn.msg, Sprintf(<<"%s", " is required">>, <<GoString(v.name)>>))
    ELSE NoErr

\* v.value == zero for T = int
RequiredIntCheck(fn, v) ==
    IF v.value = 0
    THEN FailWith(fn.msg, Sprintf(<<"%s", " is required">>, <<GoString(v.name)>>))
    ELSE NoErr

\* Faulty variant of MaxCheck: reports the text of Min.
MaxCheckMinText(fn, v) ==
    IF v.value > fn.bound
    THEN FailWith(fn.msg, Sprintf(<<"%s", " cannot be smaller than ", "%v">>,
                                  <<GoString(v.name), GoInt(fn.bound)>>))
    ELSE NoErr

MaxCheck(fn, v) ==
    IF v.value > fn.bound
    THEN FailWith(fn.msg, Sprintf(<<"%s", " cannot be larger than ", "%v">>,
                                  <<GoString(v.name), GoInt(fn.bound)>>))
    ELSE NoErr

\* Faulty variant of MinCheck: rejects the bound itself.
MinCheckExclusive(fn, v) ==
    IF v.value <= fn.bound
    THEN FailWith(fn.msg, Sprintf(<<"%s", " cannot be smaller than ", "%v">>,
                                  <<GoString(v.name), GoInt(fn.bound)>>))
    ELSE NoErr

MinCheck(fn, v) ==
    IF v.value < fn.bound
    THEN FailWith(fn.msg, Sprintf(<<"%s", " cannot be smaller than ", "%v">>,
                                  <<GoString(v.name), GoInt(fn.bound)>>))
    ELSE NoErr

\* len(m) of a map m: the number of its keys.
MapLen(m) == Cardinality(DOMAIN m)

\* The error of a MaxLength* check on a container of n elements.
TooLong(fn, v, n) ==
    IF n > fn.bound
    THEN FailWith(fn.msg, Sprintf(<<"%s", "'s length cannot be larger than ", "%v">>,
                                  <<GoString(v.name), GoInt(fn.bound)>>))
    ELSE NoErr

\* The error of a MinLength* check on a container of n elements.
TooShort(fn, v, n) ==
    IF n < fn.bound
    THEN FailWith(fn.msg, Sprintf(<<"%s", "'s length cannot be smaller than ", "%v">>,
                                  <<GoString(v.name), GoInt(fn.bound)>>))
    ELSE NoErr

MaxLengthStringCheck(fn, v) == TooLong(fn, v, Len(v.value))
MaxLengthSliceCheck(fn, v) == TooLong(fn, v, Len(v.value))
MaxLengthMapCheck(fn, v) == TooLong(fn, v, MapLen(v.value))
MinLengthStringCheck(fn, v) == TooShort(fn, v, Len(v.value))
\* Faulty variant of MinLengthSliceCheck: rejects a slice of exactly min elements.
MinLengthSliceCheckExclusive(fn, v) == TooShort(fn, v, Len(v.value) - 1)
MinLengthSliceCheck(fn, v) == TooShort(fn, v, Len(v.value))
MinLengthMapCheck(fn, v) == TooShort(fn, v, MapLen(v.value))

\* ------------------------------------------------------------------- Email
\* The classes \p{L}, \p{N} and \p{M} on the runes of the model.
Letters == { "a", "b", "c", "d", "e", "f", "g", "h", "i", "j", "k", "l", "m",
             "n", "o", "p", "q", "r", "s", "t", "u", "v", "w", "x", "y", "z",
             "A", "B", "C", "D", "E", "F", "G", "H", "I", "J", "K", "L", "M",
             "N", "O", "P", "Q", "R", "S", "T", "U", "V", "W", "X", "Y", "Z",
             "U+00EB", "U+00CB" }
Numbers == { "0", "1", "2", "3", "4", "5", "6", "7", "8", "9" }
Marks == { }
LocalChar(c) == c \in Letters \cup Numbers \cup Marks \cup {".", "_", "%", "+", "-"}
DomainChar(c) == c \in Letters \cup Numbers \cup Marks \cup {".", "-"}
\* Faulty variant of LabelChar: the last label may hold digits.
LabelCharOrDigit(c) == c \in Letters \cup Numbers \cup Marks
LabelChar(c) == c \in Letters \cup Marks

\* "(?:[^"]|\\")*": quotes around text in which every quote follows a backslash.
QuotedLocal(l) ==
    /\ Len(l) >= 2 /\ l[1] = "\"" /\ l[Len(l)] = "\""
    /\ \A k \in 2..(Len(l) - 1) : l[k] = "\"" => (k > 2 /\ l[k - 1] = "\\")
\* [\p{L}\p{N}\p{M}._%+-]+
PlainLocal(l) == Len(l) >= 1 /\ \A k \in 1..Len(l) : LocalChar(l[k])

\* The regexp matches the runes s of the text: a local part, "@" at i, one or
\* more domain characters, "." at j, and two or more letters or marks up to
\* the end.
EmailMatch(s) ==
    \E i \in 1..Len(s), j \in 1..Len(s) :
        /\ s[i] = "@" /\ s[j] = "." /\ j >= i + 2
        /\ QuotedLocal(SubSeq(s, 1, i - 1)) \/ PlainLocal(SubSeq(s, 1, i - 1))
        /\ \A k \in (i + 1)..(j - 1) : DomainChar(s[k])
        /\ Len(s) - j >= 2
        /\ \A k \in (j + 1)..Len(s) : LabelChar(s[k])

EmailCheck(fn, v) ==
    IF ~EmailMatch(Runes(v.value))
    THEN FailWith(fn.msg, Sprintf(<<"%s", " must be in correct email format">>,
                                  <<GoString(v.name)>>))
    ELSE NoErr

\* fn(v) for a check fn.
CallCheck(fn, v) ==
    CASE fn.kind = "Required" -> RequiredCheck(fn, v)
      [] fn.kind = "Required[int]" -> RequiredIntCheck(fn, v)
      [] fn.kind = "Max" -> MaxCheck(fn, v)
      [] fn.kind = "Min" -> MinCheck(fn, v)
      [] fn.kind = "MaxLengthString" -> MaxLengthStringCheck(fn, v)
      [] fn.kind = "MaxLengthSlice" -> MaxLengthSliceCheck(fn, v)
      [] fn.kind = "MaxLengthMap" -> MaxLengthMapCheck(fn, v)
      [] fn.kind = "MinLengthString" -> MinLengthStringCheck(fn, v)
      [] fn.kind = "MinLengthSlice" -> MinLengthSliceCheck(fn, v)
      [] fn.kind = "MinLengthMap" -> MinLengthMapCheck(fn, v)
      [] fn.kind = "Email" -> EmailCheck(fn, v)

\* --------------------------------------------------------- transformations
Uppercase == Fn("Uppercase", 0, <<>>)
Lowercase == Fn("Lowercase", 0, <<>>)
TrimSpace == Fn("TrimSpace", 0, <<>>)
Capitalise == Fn("Capitalise", 0, <<>>)
\* The caller-supplied mapper of TestTransformWithError: returns "" and an error.
FailingMapper == Fn("FailingMapper", 0, <<>>)

Mappers == { Uppercase, Lowercase, TrimSpace, Capitalise, FailingMapper }

Returned(val, err) == [panic |-> FALSE, val |-> val, err |-> err]
Panic == [panic |-> TRUE, val |-> <<>>, err |-> NoErr]

\* Faulty variant of CapitaliseMap: returns an error on "".
CapitaliseMapGuarded(v) ==
    IF Len(v.value) < 1 THEN Returned(<<>>, Errorf("cannot capitalise an empty string"))
    ELSE Returned(ToUpper(SubSeq(v.value, 1, 1)) \o ToLower(SubSeq(v.value, 2, Len(v.value))),
                  NoErr)

\* v.value[:1] and v.value[1:] panic (slice bounds out of range) on "".
CapitaliseMap(v) ==
    IF Len(v.value) < 1 THEN Panic
    ELSE Returned(ToUpper(SubSeq(v.value, 1, 1)) \o ToLower(SubSeq(v.value, 2, Len(v.value))),
                  NoErr)

\* fn(v) for a mapper fn: the value and error it returns, or a panic.
CallMapper(fn, v) ==
    CASE fn.kind = "Uppercase" -> Returned(ToUpper(v.value), NoErr)
      [] fn.kind = "Lowercase" -> Returned(ToLower(v.value), NoErr)
      [] fn.kind = "TrimSpace" -> Returned(StringsTrimSpace(v.value), NoErr)
      [] fn.kind = "Capitalise" -> CapitaliseMap(v)
      [] fn.kind = "FailingMapper" -> Returned(<<>>, Errorf("transformation failed"))

SeqsUpTo(S, n) == UNION { [1..k -> S] : k \in 0..n }

\* ---------------------------------------------------------------- Validate
\* The loop state of Validate and Transform: the method's copy v of the
\* receiver, the heap, the value and the name of the argument each fn was
\* called with, and whether a fn panicked.
LoopStart(r, h) == [v |-> r, heap |-> h, trace |-> <<>>, names |-> <<>>, panic |-> FALSE]

\* Faulty variant of ValidateStep: returns at the first failing check.
ValidateStepShortCircuit(st, fn) ==
    LET err == CallCheck(fn, st.v)
    IN IF st.v.errs.len > 0 THEN st
       ELSE IF err # NoErr
       THEN LET a == SliceAppend(st.heap, st.v.errs, <<err>>)
            IN [st EXCEPT !.v.errs = a.slice, !.heap = a.heap,
                          !.trace = Append(st.trace, st.v.value),
                          !.names = Append(st.names, st.v.name)]
       ELSE [st EXCEPT !.trace = Append(st.trace, st.v.value),
                       !.names = Append(st.names, st.v.name)]

\* Faulty variant of ValidateStep: skips an error the list already holds.
ValidateStepDedup(st, fn) ==
    LET err == CallCheck(fn, st.v)
        t == Append(st.trace, st.v.value)
        n == Append(st.names, st.v.name)
    IN IF err # NoErr /\ \A k \in 1..st.v.errs.len : st.heap[st.v.errs.ptr][k] # err
       THEN LET a == SliceAppend(st.heap, st.v.errs, <<err>>)
            IN [st EXCEPT !.v.errs = a.slice, !.heap = a.heap, !.trace = t, !.names = n]
       ELSE [st EXCEPT !.trace = t, !.names = n]

\* Faulty variant of ValidateStep: a failing check resets the held value to
\* the zero value.
ValidateStepZeroes(st, fn) ==
    LET err == CallCheck(fn, st.v)
        t == Append(st.trace, st.v.value)
        n == Append(st.names, st.v.name)
    IN IF err # NoErr
       THEN LET a == SliceAppend(st.heap, st.v.errs, <<err>>)
            IN [st EXCEPT !.v.errs = a.slice, !.v.value = <<>>, !.heap = a.heap,
                          !.trace = t, !.names = n]
       ELSE [st EXCEPT !.trace = t, !.names = n]

\* One iteration of the loop of Validate.
ValidateStep(st, fn) ==
    LET err == CallCheck(fn, st.v)
        t == Append(st.trace, st.v.value)
        n == Append(st.names, st.v.name)
    IN IF err # NoErr
       THEN LET a == SliceAppend(st.heap, st.v.errs, <<err>>)
            IN [st EXCEPT !.v.errs = a.slice, !.heap = a.heap, !.trace = t, !.names = n]
       ELSE [st EXCEPT !.trace = t, !.names = n]

RECURSIVE ValidateLoop(_, _, _)
ValidateLoop(st, fns, k) ==
    IF k > Len(fns) THEN st ELSE ValidateLoop(ValidateStep(st, fns[k]), fns, k + 1)

\* Faulty variant of ValidateCall: a pointer receiver, the call also updates
\* the Value it is called on.
ValidateCallInPlace(i, j, fns) ==
    /\ CanCall
    /\ LET st == ValidateLoop(LoopStart(vals[i], heap), fns, 1)
       IN /\ heap' = st.heap
          /\ vals' = [vals EXCEPT ![i] = st.v, ![j] = st.v]
          /\ built' = [built EXCEPT ![j] = Errors(st.heap, st.v)]
          /\ last' = [NoCall EXCEPT !.op = "Validate", !.src = i, !.dst = j, !.fns = fns,
                                    !.pre = Snapshot(heap, vals[i]), !.trace = st.trace,
                                    !.names = st.names]
    /\ steps' = steps + 1
    /\ UNCHANGED <<coll, held, panicked, collects, collected, thr>>

\* vals[j] = vals[i].Validate(fns...)
ValidateCall(i, j, fns) ==
    /\ CanCall
    /\ LET st == ValidateLoop(LoopStart(vals[i], heap), fns, 1)
       IN /\ heap' = st.heap
          /\ vals' = [vals EXCEPT ![j] = st.v]
          /\ built' = [built EXCEPT ![j] = Errors(st.heap, st.v)]
          /\ last' = [NoCall EXCEPT !.op = "Validate", !.src = i, !.dst = j, !.fns = fns,
                                    !.pre = Snapshot(heap, vals[i]), !.trace = st.trace,
                                    !.names = st.names]
    /\ steps' = steps + 1
    /\ UNCHANGED <<coll, held, panicked, collects, collected, thr>>

Validate(i, j, fns) == steps < MaxSteps /\ ValidateCall(i, j, fns)

\* --------------------------------------------------------------- Transform
\* Faulty variant of TransformStep: keeps the value a failing mapper returned.
TransformStepKeepFailed(st, fn) ==
    LET r == CallMapper(fn, st.v)
        t == Append(st.trace, st.v.value)
        n == Append(st.names, st.v.name)
    IN IF r.panic THEN [st EXCEPT !.trace = t, !.names = n, !.panic = TRUE]
       ELSE IF r.err # NoErr
       THEN LET a == SliceAppend(st.heap, st.v.errs, <<r.err>>)
            IN [st EXCEPT !.v.errs = a.slice, !.v.value = r.val, !.heap = a.heap,
                          !.trace = t, !.names = n]
       ELSE [st EXCEPT !.v.value = r.val, !.trace = t, !.names = n]

\* Faulty variant of TransformStep: never replaces the held value.
TransformStepNoUpdate(st, fn) ==
    LET r == CallMapper(fn, st.v)
        t == Append(st.trace, st.v.value)
        n == Append(st.names, st.v.name)
    IN IF r.panic THEN [st EXCEPT !.trace = t, !.names = n, !.panic = TRUE]
       ELSE IF r.err # NoErr
       THEN LET a == SliceAppend(st.heap, st.v.errs, <<r.err>>)
            IN [st EXCEPT !.v.errs = a.slice, !.heap = a.heap, !.trace = t, !.names = n]
       ELSE [st EXCEPT !.trace = t, !.names = n]

\* Faulty variant of TransformStep: a succeeding mapper clears the error list.
TransformStepResets(st, fn) ==
    LET r == CallMapper(fn, st.v)
        t == Append(st.trace, st.v.value)
        n == Append(st.names, st.v.name)
    IN IF r.panic THEN [st EXCEPT !.trace = t, !.names = n, !.panic = TRUE]
       ELSE IF r.err # NoErr
       THEN LET a == SliceAppend(st.heap, st.v.errs, <<r.err>>)
            IN [st EXCEPT !.v.errs = a.slice, !.heap = a.heap, !.trace = t, !.names = n]
       ELSE [st EXCEPT !.v.value = r.val, !.v.errs = EmptySlice, !.trace = t, !.names = n]

\* One iteration of the loop of Transform.
TransformStep(st, fn) ==
    LET r == CallMapper(fn, st.v)
        t == Append(st.trace, st.v.value)
        n == Append(st.names, st.v.name)
    IN IF r.panic THEN [st EXCEPT !.trace = t, !.names = n, !.panic = TRUE]
       ELSE IF r.err # NoErr
       THEN LET a == SliceAppend(st.heap, st.v.errs, <<r.err>>)
            IN [st EXCEPT !.v.errs = a.slice, !.heap = a.heap, !.trace = t, !.names = n]
       ELSE [st EXCEPT !.v.value = r.val, !.trace = t, !.names = n]

\* A panic in a mapper unwinds out of the loop: no later mapper is called.
RECURSIVE TransformLoop(_, _, _)
TransformLoop(st, fns, k) ==
    IF k > Len(fns) \/ st.panic THEN st
    ELSE TransformLoop(TransformStep(st, fns[k]), fns, k + 1)

\* vals[j] = vals[i].Transform(fns...); nothing is assigned when a mapper panics.
TransformCall(i, j, fns) ==
    /\ CanCall
    /\ LET st == TransformLoop(LoopStart(vals[i], heap), fns, 1)
       IN /\ heap' = st.heap
          /\ panicked' = st.panic
          /\ vals' = IF st.panic THEN vals ELSE [vals EXCEPT ![j] = st.v]
          /\ built' = IF st.panic THEN built ELSE [built EXCEPT ![j] = Errors(st.heap, st.v)]
          /\ last' = [NoCall EXCEPT !.op = "Transform", !.src = i, !.dst = j, !.fns = fns,
                                    !.pre = Snapshot(heap, vals[i]), !.trace = st.trace,
                                    !.names = st.names]
    /\ steps' = steps + 1
    /\ UNCHANGED <<coll, held, collects, collected, thr>>

Transform(i, j, fns) == steps < MaxSteps /\ TransformCall(i, j, fns)

\* ----------------------------------------------------------------- Collect
\* Faulty variant of CollectInto: replaces the Collector's list.
CollectIntoReplace(h, c, r) ==
    LET a == SliceAppend(h, EmptySlice, Errors(h, r))
    IN [heap |-> a.heap, c |-> [c EXCEPT !.errs = a.slice], ret |-> r.value]

\* Faulty variant of CollectInto: puts the Value's errors before the Collector's.
CollectIntoPrepend(h, c, r) ==
    LET a == SliceAppend(h, r.errs, Errors(h, c))
    IN [heap |-> a.heap, c |-> [c EXCEPT !.errs = a.slice], ret |-> r.value]

\* Faulty variant of CollectInto: an empty Collector adopts the Value's slice
\* instead of copying its elements.
CollectIntoShare(h, c, r) ==
    IF c.errs.len = 0
    THEN [heap |-> h, c |-> [c EXCEPT !.errs = r.errs], ret |-> r.value]
    ELSE LET a == SliceAppend(h, c.errs, Errors(h, r))
         IN [heap |-> a.heap, c |-> [c EXCEPT !.errs = a.slice], ret |-> r.value]

\* The body of Collect: c.errs = append(c.errs, v.errs...); return v.value.
\* Faulty variant of CollectInto: skips the errors the Collector already holds.
CollectIntoDedup(h, c, r) ==
    LET have == { Errors(h, c)[k] : k \in 1..c.errs.len }
        a == SliceAppend(h, c.errs, SelectSeq(Errors(h, r), LAMBDA e : e \notin have))
    IN [heap |-> a.heap, c |-> [c EXCEPT !.errs = a.slice], ret |-> r.value]

CollectInto(h, c, r) ==
    LET a == SliceAppend(h, c.errs, Errors(h, r))
    IN [heap |-> a.heap, c |-> [c EXCEPT !.errs = a.slice], ret |-> r.value]

\* vals[i].Collect(c)
Collect(i) ==
    /\ CanCall
    /\ collects < MaxCollects
    /\ LET r == CollectInto(heap, coll, vals[i])
       IN /\ heap' = r.heap
          /\ coll' = r.c
          /\ last' = [NoCall EXCEPT !.op = "Collect", !.src = i,
                                    !.pre = Snapshot(heap, vals[i]),
                                    !.precoll = Errors(heap, coll), !.ret = r.ret]
    /\ collected' = Append(collected, Errors(heap, vals[i]))
    /\ collects' = collects + 1
    /\ UNCHANGED <<vals, held, panicked, steps, built, thr>>

\* -------------------------------------------------- the caller and Errors()
\* Faulty variant of CollectorErrors: hands the list over and empties the
\* Collector.
CollectorErrorsDrain ==
    /\ CanCall
    /\ held' = coll.errs
    /\ coll' = [coll EXCEPT !.errs = EmptySlice]
    /\ UNCHANGED <<heap, vals, panicked, steps, collects, last, built, collected, thr>>

\* held = c.Errors(): the Collector's own slice header, not a copy.
CollectorErrors ==
    /\ CanCall
    /\ held' = coll.errs
    /\ UNCHANGED <<heap, vals, coll, panicked, steps, collects, last, built, collected, thr>>

CallerErr == Errorf("overwritten by caller")

\* errs := c.Errors(); errs[k-1] = CallerErr
CallerOverwrite(k) ==
    /\ CanCall
    /\ held = coll.errs
    /\ k \in 1..held.len
    /\ heap' = [heap EXCEPT ![held.ptr][k] = CallerErr]
    /\ UNCHANGED <<vals, coll, held, panicked, steps, collects, last, built, collected, thr>>

\* errs := c.Errors(); errs = append(errs, CallerErr)
CallerAppend ==
    /\ CanCall
    /\ steps < MaxSteps
    /\ held = coll.errs
    /\ LET a == SliceAppend(heap, held, <<CallerErr>>)
       IN heap' = a.heap /\ held' = a.slice
    /\ steps' = steps + 1
    /\ UNCHANGED <<vals, coll, panicked, collects, last, built, collected, thr>>

Init ==
    /\ heap = <<>>
    /\ \E value \in InputStrings, name \in NameArgs :
          vals = [i \in Slots |-> Val(value, name)]
    /\ coll = [errs |-> EmptySlice]
    /\ held = EmptySlice
    /\ panicked = FALSE
    /\ steps = 0
    /\ collects = 0
    /\ last = NoCall
    /\ built = [i \in Slots |-> <<>>]
    /\ collected = <<>>
    /\ thr = NoThreads

Next ==
    \/ \E i, j \in Slots, fns \in SeqsUpTo(Checks, MaxFns) : Validate(i, j, fns)
    \/ \E i, j \in Slots, fns \in SeqsUpTo(Mappers, MaxFns) : Transform(i, j, fns)
    \/ \E i \in Slots : Collect(i)

Spec == Init /\ [][Next]_vars

\* Runs that continue several chains from the Value in variable 1.
BranchValidate(j, fns) == steps < MaxBranchSteps /\ ValidateCall(1, j, fns)
BranchTransform(j, fns) == steps < MaxBranchSteps /\ TransformCall(1, j, fns)

NextBranch ==
    \/ \E j \in Slots, fns \in SeqsUpTo({Required(<<>>)}, MaxFns) : BranchValidate(j, fns)
    \/ \E j \in Slots : BranchTransform(j, <<FailingMapper>>)

SpecBranch == Init /\ [][NextBranch]_vars

\* Runs of a caller that keeps the slice Collector.Errors() returned and
\* writes through it.
NextCaller ==
    \/ \E fns \in SeqsUpTo(Checks, MaxFns) : Validate(1, 1, fns)
    \/ Collect(1)
    \/ CollectorErrors
    \/ \E k \in 1..(MaxSteps * MaxFns * MaxCollects) : CallerOverwrite(k)
    \/ CallerAppend

SpecCaller == Init /\ [][NextCaller]_vars

\* ------------------------------------------------- construction, accessors
\* Value(), Name() and IsValid() of a Value.
Value(r) == r.value
Name(r) == r.name
IsValid(r) == r.errs.len = 0

\* vals[j] = Val(value, name...)
Construct(j, value, name) ==
    /\ CanCall
    /\ steps < MaxSteps
    /\ vals' = [vals EXCEPT ![j] = Val(value, name)]
    /\ built' = [built EXCEPT ![j] = <<>>]
    /\ last' = [NoCall EXCEPT !.op = "Val", !.dst = j, !.ret = value, !.fns = name]
    /\ steps' = steps + 1
    /\ UNCHANGED <<heap, coll, held, panicked, collects, collected, thr>>

\* held = vals[i].Errors(): the Value's own slice header.
ValueErrors(i) ==
    /\ CanCall
    /\ held' = vals[i].errs
    /\ UNCHANGED <<heap, vals, coll, panicked, steps, collects, last, built, collected, thr>>

\* Runs of a caller that constructs, validates, transforms and collects the
\* Value in variable 1 and reads the error lists.
NextAccess ==
    \/ \E value \in InputStrings, name \in ManyNameArgs : Construct(1, value, name)
    \/ \E fns \in SeqsUpTo(Checks, MaxFns) : Validate(1, 1, fns)
    \/ \E fns \in SeqsUpTo({Uppercase, FailingMapper}, MaxFns) : Transform(1, 1, fns)
    \/ Collect(1)
    \/ ValueErrors(1)
    \/ CollectorErrors

SpecAccess == Init /\ [][NextAccess]_vars

\* ------------------------------------------- the built-in checks, one by one
\* The values the built-in checks are applied to, by type.
IntInputs == (-MaxInt)..MaxInt
\* "test@example.com", the same with U+00EB for its "e", and "not-an-email"
TestEmail == << "t", "e", "s", "t", "@", "e", "x", "a", "m", "p", "l", "e",
                ".", "c", "o", "m" >>
UnicodeEmail == << "t", "C3", "AB", "s", "t", "@", "e", "x", "a", "m", "p", "l", "e",
                   ".", "c", "o", "m" >>
NotAnEmail == << "n", "o", "t", "-", "a", "n", "-", "e", "m", "a", "i", "l" >>
StringInputs == { [k \in 1..n |-> "a"] : n \in 0..MaxLen }
                   \cup { <<"a", "@", "b", ".", "c", "o">>, <<"a", "@", "b", ".", "c", "1">> }
                   \cup { TestEmail, UnicodeEmail, NotAnEmail }
SliceInputs == { [k \in 1..n |-> 10 * k] : n \in 0..MaxLen }     \* []int
MapKeys == { "x", "y", "z" }
MapInputs == { [k \in K |-> 0] : K \in SUBSET MapKeys }            \* map[string]int

IntBounds == (-MaxInt)..MaxInt
LenBounds == (-1)..MaxLen
\* The variadic errMssg argument of a factory.
CustomMsgs == { <<>>, <<"">>, <<"must be set">>, <<"%s">> }

StringChecks ==
    { Required(m) : m \in CustomMsgs } \cup { Email(m) : m \in CustomMsgs }
      \cup { MinLengthString(n, m) : n \in LenBounds, m \in CustomMsgs }
      \cup { MaxLengthString(n, m) : n \in LenBounds, m \in CustomMsgs }
IntChecks ==
    { RequiredInt(m) : m \in CustomMsgs }
      \cup { Min(b, m) : b \in IntBounds, m \in CustomMsgs }
      \cup { Max(b, m) : b \in IntBounds, m \in CustomMsgs }
SliceChecks ==
    { MinLengthSlice(n, m) : n \in LenBounds, m \in CustomMsgs }
      \cup { MaxLengthSlice(n, m) : n \in LenBounds, m \in CustomMsgs }
MapChecks ==
    { MinLengthMap(n, m) : n \in LenBounds, m \in CustomMsgs }
      \cup { MaxLengthMap(n, m) : n \in LenBounds, m \in CustomMsgs }

\* vals[1] = Val(value, name...).Validate(fn), as the first call of a run.
ValidateFresh(value, name, fn) ==
    /\ CanCall
    /\ steps = 0
    /\ LET r == Val(value, name)
           st == ValidateLoop(LoopStart(r, heap), <<fn>>, 1)
       IN /\ heap' = st.heap
          /\ vals' = [vals EXCEPT ![1] = st.v]
          /\ built' = [built EXCEPT ![1] = Errors(st.heap, st.v)]
          /\ last' = [NoCall EXCEPT !.op = "Validate", !.src = 1, !.dst = 1, !.fns = <<fn>>,
                                    !.pre = Snapshot(heap, r), !.trace = st.trace,
                                    !.names = st.names]
    /\ steps' = steps + 1
    /\ UNCHANGED <<coll, held, panicked, collects, collected, thr>>

\* The type parameter of the check is the type of the wrapped value.
ValidateString(value, name, fn) == fn \in StringChecks /\ ValidateFresh(value, name, fn)
ValidateInt(value, name, fn) == fn \in IntChecks /\ ValidateFresh(value, name, fn)
ValidateSlice(value, name, fn) == fn \in SliceChecks /\ ValidateFresh(value, name, fn)
ValidateMap(value, name, fn) == fn \in MapChecks /\ ValidateFresh(value, name, fn)

NextChecks ==
    \/ \E value \in StringInputs, name \in NameArgs, fn \in StringChecks :
          ValidateString(value, name, fn)
    \/ \E value \in IntInputs, name \in NameArgs, fn \in IntChecks :
          ValidateInt(value, name, fn)
    \/ \E value \in SliceInputs, name \in NameArgs, fn \in SliceChecks :
          ValidateSlice(value, name, fn)
    \/ \E value \in MapInputs, name \in NameArgs, fn \in MapChecks :
          ValidateMap(value, name, fn)

SpecChecks == Init /\ [][NextChecks]_vars

\* ------------------------------------- the built-in mappers, one call a run
\* A run that starts from Values wrapping "" under the default name.
InitFresh == Init /\ vals = [i \in Slots |-> Val(<<>>, <<>>)]

\* "bobby" and "bOBBY"
Bobby == << "b", "o", "b", "b", "y" >>
BobbyMixed == << "b", "O", "B", "B", "Y" >>
\* Strings of spaces, letters and the bytes of U+00EB, well-formed or not.
MapperBytes == { " ", "a", "B", "C3", "AB" }
MapperInputs == SeqsUpTo(MapperBytes, MaxLen) \cup { Bobby, BobbyMixed }
StringMappers == { Uppercase, Lowercase, TrimSpace, Capitalise }

\* vals[1] = Val(value).Transform(fns...), as the first call of a run.
TransformFresh(value, fns) ==
    /\ CanCall
    /\ steps = 0
    /\ LET r == Val(value, <<>>)
           st == TransformLoop(LoopStart(r, heap), fns, 1)
       IN /\ heap' = st.heap
          /\ panicked' = st.panic
          /\ vals' = IF st.panic THEN vals ELSE [vals EXCEPT ![1] = st.v]
          /\ built' = IF st.panic THEN built ELSE [built EXCEPT ![1] = Errors(st.heap, st.v)]
          /\ last' = [NoCall EXCEPT !.op = "Transform", !.src = 1, !.dst = 1, !.fns = fns,
                                    !.pre = Snapshot(heap, r), !.trace = st.trace,
                                    !.names = st.names]
    /\ steps' = steps + 1
    /\ UNCHANGED <<coll, held, collects, collected, thr>>

NextMappers ==
    \E value \in MapperInputs, fns \in SeqsUpTo(StringMappers, MaxFns) :
        TransformFresh(value, fns)

SpecMappers == InitFresh /\ [][NextMappers]_vars

\* ---------------------------------------------------- Email on every text
\* Every text of up to MaxEmailLen bytes over a letter, a digit, "@", "." and
\* the quote, and longer ones: quoted local parts, empty, holding "@" and
\* holding an escaped quote, and a two-byte letter in the last label.
EmailBytes == { "a", "1", "@", ".", "\"" }
QuotedAt == << "\"", "@", "\"", "@", "a", ".", "a", "a" >>
UnicodeLabel == << "a", "@", "a", ".", "a", "C3", "AB" >>
QuotedEmpty == << "\"", "\"", "@", "a", ".", "a", "a" >>
QuotedQuote == << "\"", "\\", "\"", "\"", "@", "a", ".", "a", "a" >>
LongerEmailInputs == { QuotedAt, QuotedEmpty, QuotedQuote, UnicodeLabel }

ValidateEmail(value) == CanCall /\ ValidateFresh(value, <<>>, Email(<<>>))

\* One call a run.
NextEmail ==
    /\ steps = 0
    /\ \/ \E n \in 0..MaxEmailLen : \E value \in [1..n -> EmailBytes] : ValidateEmail(value)
       \/ \E value \in LongerEmailInputs : ValidateEmail(value)

SpecEmail == InitFresh /\ [][NextEmail]_vars

\* -------------------------------------------------------------- goroutines
\* Two goroutines, each validating a record of its own: goroutine t works on
\* the Value in vals[t] and collects into the Collector thr.target[t].  The
\* heap is shared.  Validate and Transform touch only the goroutine's own
\* Value and are steps of their own; Collect reads and writes c.errs, three
\* words, without synchronisation, so its loads and stores are steps of their
\* own, in any order.
RecordName == << "name", "email" >>
ThreadInputs == { <<>>, << "a" >> }
ThreadChecks == { << Required(<<>>) >>, << Required(<<>>), MinLengthString(2, <<>>) >> }
ThreadMappers == { << TrimSpace >>, << FailingMapper >> }

\* Faulty variant of NewCollector: every call returns the same Collector.
NewCollectorShared(n) == 1
\* The n-th call returns a pointer to a Collector of its own.
NewCollector(n) == n

InitThreads(target, limit) ==
    /\ heap = <<>>
    /\ vals = [t \in Slots |-> Val(<<>>, << RecordName[t] >>)]
    /\ coll = [errs |-> EmptySlice]
    /\ held = EmptySlice
    /\ panicked = FALSE
    /\ steps = 0
    /\ collects = 0
    /\ last = NoCall
    /\ built = [i \in Slots |-> <<>>]
    /\ collected = <<>>
    /\ thr = ThreadsStart(target, limit)

\* c1 := NewCollector(); c2 := NewCollector(), one for each goroutine.
InitRecords == InitThreads([t \in Slots |-> NewCollector(t)], MaxThreadCollects)
\* c := NewCollector(), handed to both goroutines.
InitShared == \E c \in { NewCollector(1) } : InitThreads([t \in Slots |-> c], MaxSharedCollects)

ThreadCanStep(t) == ~thr.corrupt /\ thr.pc[t] = "idle"
Others(t) == { u \in Slots \ {t} : thr.target[u] = thr.target[t] }
\* Another goroutine is inside Collect.
Overlaps(t) == thr.overlap \/ \E u \in Slots \ {t} : thr.pc[u] # "idle"

\* vals[t] = Val(value, RecordName[t]).Validate(fns...)
ThreadValidate(t, value, fns) ==
    /\ ThreadCanStep(t)
    /\ thr.calls[t] < MaxThreadCalls
    /\ LET st == ValidateLoop(LoopStart(Val(value, << RecordName[t] >>), heap), fns, 1)
       IN /\ heap' = st.heap
          /\ vals' = [vals EXCEPT ![t] = st.v]
    /\ thr' = [thr EXCEPT !.calls[t] = @ + 1]
    /\ UNCHANGED <<coll, held, panicked, steps, collects, last, built, collected>>

\* vals[t] = vals[t].Transform(fns...)
ThreadTransform(t, fns) ==
    /\ ThreadCanStep(t)
    /\ thr.calls[t] < MaxThreadCalls
    /\ LET st == TransformLoop(LoopStart(vals[t], heap), fns, 1)
       IN /\ ~st.panic
          /\ heap' = st.heap
          /\ vals' = [vals EXCEPT ![t] = st.v]
    /\ thr' = [thr EXCEPT !.calls[t] = @ + 1]
    /\ UNCHANGED <<coll, held, panicked, steps, collects, last, built, collected>>

\* vals[t].Collect(c): the receiver is copied into the call.
CollectBegin(t) ==
    /\ ThreadCanStep(t)
    /\ thr.ncollect[t] < thr.limit
    /\ thr' = [thr EXCEPT !.pc[t] = "load", !.words[t] = { }, !.recv[t] = vals[t],
                          !.hdr[t] = EmptySlice, !.torn[t] = FALSE,
                          !.collected[t] = Append(@, Errors(heap, vals[t]))]
    /\ UNCHANGED <<heap, vals, coll, held, panicked, steps, collects, last, built, collected>>

\* One word of c.errs is read.  The read is torn when another goroutine has
\* written some but not all words of c.errs.
CollectLoad(t, w) ==
    /\ ~thr.corrupt
    /\ thr.pc[t] = "load" /\ w \notin thr.words[t]
    /\ LET c == thr.target[t]
           h == [thr.hdr[t] EXCEPT ![w] = thr.colls[c].errs[w]]
           done == thr.words[t] \cup {w} = Words
           midStore == \E u \in Others(t) : thr.pc[u] = "store" /\ thr.words[u] # { }
       IN thr' = [thr EXCEPT !.hdr[t] = h,
                             !.words[t] = IF done THEN { } ELSE @ \cup {w},
                             !.pc[t] = IF done THEN "append" ELSE "load",
                             !.base[t] = IF done THEN h.len ELSE @,
                             !.torn[t] = @ \/ midStore,
                             !.overlap = Overlaps(t)]
    /\ UNCHANGED <<heap, vals, coll, held, panicked, steps, collects, last, built, collected>>

\* The slice header describes a whole allocated array (or none).
Sound(h, s) ==
    /\ s.len <= s.cap
    /\ s.cap = 0 \/ (s.ptr \in 1..Len(h) /\ s.cap = Len(h[s.ptr]))

\* Faulty variant of AppendBase: appends to the list the Collector holds now.
AppendBaseCurrent(local, current) == current
\* append(c.errs, ...) works on the header read before.
AppendBase(local, current) == local

\* append(c.errs, v.errs...) on the words read.  On a torn header that
\* describes no allocated array the access is out of bounds: anything may
\* follow (corrupt).
CollectAppend(t) ==
    /\ ~thr.corrupt
    /\ thr.pc[t] = "append"
    /\ LET b == AppendBase(thr.hdr[t], thr.colls[thr.target[t]].errs)
       IN IF ~Sound(heap, b)
          THEN /\ thr' = [thr EXCEPT !.corrupt = TRUE]
               /\ heap' = heap
          ELSE LET a == SliceAppend(heap, b, Errors(heap, thr.recv[t]))
               IN /\ heap' = a.heap
                  /\ thr' = [thr EXCEPT !.hdr[t] = a.slice, !.pc[t] = "store",
                                        !.words[t] = { }, !.overlap = Overlaps(t)]
    /\ UNCHANGED <<vals, coll, held, panicked, steps, collects, last, built, collected>>

\* One word of the new slice is written to c.errs; after the last one Collect
\* returns v.value.
CollectStore(t, w) ==
    /\ ~thr.corrupt
    /\ thr.pc[t] = "store" /\ w \notin thr.words[t]
    /\ LET c == thr.target[t]
           done == thr.words[t] \cup {w} = Words
           midStore == \E u \in Others(t) : thr.pc[u] = "store" /\ thr.words[u] # { }
           tears == { u \in Others(t) : thr.pc[u] \in {"load", "store"} /\ thr.words[u] # { } }
       IN thr' = [thr EXCEPT !.colls[c].errs[w] = thr.hdr[t][w],
                             !.words[t] = IF done THEN { } ELSE @ \cup {w},
                             !.pc[t] = IF done THEN "idle" ELSE "store",
                             !.ncollect[t] = IF done THEN @ + 1 ELSE @,
                             !.ret[t] = IF done THEN thr.recv[t].value ELSE @,
                             !.torn = [u \in Slots |->
                                          IF u = t THEN thr.torn[t] \/ midStore
                                          ELSE thr.torn[u] \/ u \in tears],
                             !.overlap = Overlaps(t)]
    /\ UNCHANGED <<heap, vals, coll, held, panicked, steps, collects, last, built, collected>>

NextThreads ==
    \/ \E t \in Slots, value \in ThreadInputs, fns \in ThreadChecks :
          ThreadValidate(t, value, fns)
    \/ \E t \in Slots, fns \in ThreadMappers : ThreadTransform(t, fns)
    \/ \E t \in Slots : CollectBegin(t)
    \/ \E t \in Slots, w \in Words : CollectLoad(t, w)
    \/ \E t \in Slots : CollectAppend(t)
    \/ \E t \in Slots, w \in Words : CollectStore(t, w)

\* Each record with a Collector of its own.
SpecRecords == InitRecords /\ [][NextThreads]_vars
\* Both goroutines collect into one Collector.
SpecShared == InitShared /\ [][NextThreads]_vars

\* ------------------------------------------------------------------ chains
\* " hello " and "HELLO"
HelloPadded == << " ", "h", "e", "l", "l", "o", " " >>
HelloUpper == << "H", "E", "L", "L", "O" >>
ChainInputs == { <<>>, <<" ">>, <<" ", "a", "A">>, HelloPadded }

InitChain ==
    /\ heap = <<>>
    /\ \E value \in ChainInputs, name \in NameArgs :
          vals = [i \in Slots |-> Val(value, name)]
    /\ coll = [errs |-> EmptySlice]
    /\ held = EmptySlice
    /\ panicked = FALSE
    /\ steps = 0
    /\ collects = 0
    /\ last = NoCall
    /\ built = [i \in Slots |-> <<>>]
    /\ collected = <<>>
    /\ thr = NoThreads

\* Runs that chain Transform and Validate calls, in either order, on the
\* Value in variable 1.
NextChain ==
    \/ \E fns \in SeqsUpTo({TrimSpace, Uppercase}, MaxFns) : Transform(1, 1, fns)
    \/ \E fns \in SeqsUpTo(Checks, MaxFns) : Validate(1, 1, fns)

SpecChain == InitChain /\ [][NextChain]_vars

\* ============================================================== properties
NonNil(errs) == SelectSeq(errs, LAMBDA e : e # NoErr)
RECURSIVE Flatten(_)
Flatten(ls) == IF ls = <<>> THEN <<>> ELSE Head(ls) \o Flatten(Tail(ls))
RECURSIVE SumLen(_)
SumLen(ls) == IF ls = <<>> THEN 0 ELSE Len(Head(ls)) + SumLen(Tail(ls))

\* The receiver of the last call as it was before the call, and the Value the
\* call returned.
Receiver == [value |-> last.pre.value, name |-> last.pre.name]
Result == vals[last.dst]
CallReturned == ~panicked
CollectorIsValid == coll.errs.len = 0

\* What each check of the last Validate call returns on the receiver.
CheckResults == [k \in 1..Len(last.fns) |-> CallCheck(last.fns[k], Receiver)]

\* What the k-th mapper of the last Transform call returns on the argument it
\* was called with.
MapperResult(k) == CallMapper(last.fns[k], [Receiver EXCEPT !.value = last.trace[k]])
Succeeds(k) == ~MapperResult(k).panic /\ MapperResult(k).err = NoErr
Fails(k) == ~MapperResult(k).panic /\ MapperResult(k).err # NoErr
MapperErrs == NonNil([k \in 1..Len(last.trace) |->
                        IF Fails(k) THEN MapperResult(k).err ELSE NoErr])
\* The value held after the k-th mapper: the argument of the next one, or the
\* value of the returned Value after the last one.
HeldAfter(k) == IF k < Len(last.trace) THEN last.trace[k + 1] ELSE Result.value
Observed(k) == k < Len(last.trace) \/ CallReturned

\* fns applied left to right to x, as a composition of functions.
RECURSIVE Compose(_, _)
Compose(fns, x) ==
    IF fns = <<>> THEN x
    ELSE Compose(Tail(fns), CallMapper(Head(fns), [Receiver EXCEPT !.value = x]).val)

\* C1: one Validate call on a freshly wrapped Value runs every check and
\* yields exactly the errors of the failing checks, in supply order.
C1_ValidateCollectsFailuresInOrder ==
    (last.op = "Validate" /\ steps = 1) =>
        /\ last.pre.errs = <<>>
        /\ Len(last.trace) = Len(last.fns)
        /\ Errors(heap, Result) = NonNil(CheckResults)
        /\ Len(Errors(heap, Result)) =
              Cardinality({k \in 1..Len(last.fns) : CheckResults[k] # NoErr})

\* A fresh Value validated with a passing check followed by a failing one...
C1_Witness ==
    /\ last.op = "Validate" /\ steps = 1
    /\ Len(last.fns) = 2
    /\ CheckResults[1] = NoErr /\ CheckResults[2] # NoErr
    /\ Errors(heap, Result) = <<CheckResults[2]>>

\* C2: a succeeding mapper's result becomes the held value and the argument of
\* the next mapper; when all succeed the final value is the composition of the
\* mappers on the initial value and the error list is unchanged.
C2_TransformSuccessUpdatesValue ==
    last.op = "Transform" =>
        /\ \A k \in 1..Len(last.trace) :
              (Succeeds(k) /\ Observed(k)) => HeldAfter(k) = MapperResult(k).val
        /\ (CallReturned /\ \A k \in 1..Len(last.fns) : Succeeds(k)) =>
              /\ Result.value = Compose(last.fns, last.pre.value)
              /\ Errors(heap, Result) = last.pre.errs

C2_Witness ==
    /\ last.op = "Transform" /\ CallReturned
    /\ Len(last.fns) = 2 /\ Succeeds(1) /\ Succeeds(2)
    /\ last.trace[2] # last.trace[1]
    /\ Result.value # last.trace[2]
    /\ last.pre.errs # <<>>

\* C3: a mapper that returns an error leaves the held value as it was (the
\* value it returned is discarded) and adds exactly one error.
C3_TransformFailureKeepsValue ==
    last.op = "Transform" =>
        /\ \A k \in 1..Len(last.trace) :
              (Fails(k) /\ Observed(k)) => HeldAfter(k) = last.trace[k]
        /\ CallReturned =>
              Len(Errors(heap, Result)) = Len(last.pre.errs)
                  + Cardinality({k \in 1..Len(last.fns) : Fails(k)})

C3_Witness ==
    /\ last.op = "Transform" /\ CallReturned
    /\ \E k \in 1..Len(last.fns) :
          /\ Fails(k)
          /\ MapperResult(k).val # last.trace[k]
          /\ Result.value = last.trace[k]
    /\ Len(Errors(heap, Result)) = Len(last.pre.errs) + 1

\* C4: every mapper supplied to Transform is attempted exactly once; the call
\* ends with the composition of the succeeding mappers as value and one error
\* per failing mapper, in order.
C4_TransformAttemptsEveryMapper ==
    last.op = "Transform" =>
        /\ Len(last.trace) = Len(last.fns)
        /\ CallReturned
        /\ \A k \in 1..Len(last.fns) :
              HeldAfter(k) = IF Succeeds(k) THEN MapperResult(k).val ELSE last.trace[k]
        /\ Errors(heap, Result) = last.pre.errs \o MapperErrs

\* C5: Collect appends the Value's errors, in order, to the Collector's
\* previous list and returns the held value.
C5_CollectAppendsAndReturnsValue ==
    last.op = "Collect" =>
        /\ Errors(heap, coll) = last.precoll \o last.pre.errs
        /\ last.ret = last.pre.value
        /\ last.ret = vals[last.src].value

C5_Witness ==
    /\ last.op = "Collect"
    /\ last.precoll # <<>> /\ last.pre.errs # <<>>
    /\ \A value \in InputStrings : last.ret # value
    /\ Errors(heap, coll) = last.precoll \o last.pre.errs

\* C6: the Collector's list is the concatenation, in call order, of the error
\* lists of the collected Values; its length is the sum of their lengths; it is
\* valid iff every collected Value had no errors.
C6_CollectorIsConcatenation ==
    /\ Errors(heap, coll) = Flatten(collected)
    /\ Len(Errors(heap, coll)) = SumLen(collected)
    /\ CollectorIsValid <=> \A k \in 1..Len(collected) : collected[k] = <<>>

C6_Witness ==
    /\ Len(collected) = 2
    /\ Len(collected[1]) = 1 /\ Len(collected[2]) = 2
    /\ Len(Errors(heap, coll)) = 3
    /\ ~CollectorIsValid

\* C7: every Validate or Transform call leaves the receiver's error list as a
\* prefix of the result's and adds, in application order, one entry per
\* failing check or mapper, duplicates included.
C7_ErrorsAppendOnly ==
    /\ (last.op = "Validate") =>
          Errors(heap, Result) = last.pre.errs \o NonNil(CheckResults)
    /\ (last.op = "Transform" /\ CallReturned) =>
          Errors(heap, Result) = last.pre.errs \o MapperErrs

\* A Value that already holds an error, validated with the same failing check
\* twice: two more equal entries.
C7_Witness ==
    /\ last.op = "Validate"
    /\ last.pre.errs # <<>>
    /\ Len(last.fns) = 2 /\ last.fns[1] = last.fns[2]
    /\ CheckResults[1] # NoErr
    /\ Len(Errors(heap, Result)) = Len(last.pre.errs) + 2

\* C8: a Value keeps reporting the errors it was returned with, whatever is
\* later built from the Value it was derived from.
C8_NoSharedErrorState ==
    \A j \in Slots : Errors(heap, vals[j]) = built[j]

\* C9: what the Collector reports does not depend on what the caller did to a
\* list that Errors() returned.
C9_CollectorUnaffectedByCaller ==
    /\ Errors(heap, coll) = Flatten(collected)
    /\ CollectorIsValid <=> Flatten(collected) = <<>>

\* C10: no Validate or Transform call panics.
C10_NoPanic == ~panicked

\* C11: Validate never changes the held value or the name: every check of one
\* call is called with the receiver's value and name, and the returned Value
\* holds that value and name.
C11_ValidateKeepsValueAndName ==
    last.op = "Validate" =>
        /\ Len(last.trace) = Len(last.fns) /\ Len(last.names) = Len(last.fns)
        /\ \A k \in 1..Len(last.fns) :
              last.trace[k] = last.pre.value /\ last.names[k] = last.pre.name
        /\ Result.value = last.pre.value
        /\ Result.name = last.pre.name

\* A non-empty string validated with a failing check followed by another
\* check: the second check and the result still see the string.
C11_Witness ==
    /\ last.op = "Validate"
    /\ Len(last.fns) = 2 /\ CheckResults[1] # NoErr
    /\ last.pre.value # <<>>
    /\ last.trace[2] = last.pre.value
    /\ Result.value = last.pre.value /\ Result.name = "age"

\* C12: Collect copies.  The call leaves the receiver's value, name and error
\* list as they were; the Collector's list shares no storage with any Value;
\* no later Validate or Transform call changes what the Collector reports,
\* and no Collect call changes what any Value reports.
C12_CollectCopies ==
    /\ [](last.op = "Collect" => Snapshot(heap, vals[last.src]) = last.pre)
    /\ [](\A j \in Slots : coll.errs.len > 0 => vals[j].errs.ptr # coll.errs.ptr)
    /\ [][steps' = steps + 1 => Errors(heap', coll') = Errors(heap, coll)]_vars
    /\ [][collects' = collects + 1 =>
            \A j \in Slots : Snapshot(heap', vals'[j]) = Snapshot(heap, vals[j])]_vars

\* A Value with errors was collected and then validated further: it now
\* reports more errors, the Collector still the ones it copied.
C12_Witness ==
    /\ last.op = "Validate" /\ last.src = last.dst
    /\ Len(collected) = 1 /\ collected[1] # <<>>
    /\ last.pre.errs = collected[1]
    /\ Len(Errors(heap, Result)) > Len(collected[1])
    /\ Errors(heap, coll) = collected[1]

\* C13: a Collector starts empty and valid; its list changes only in a
\* Collect call (not in Val, Validate, Transform or an accessor), and each
\* Collect call leaves the previous list as a prefix of the new one.
C13_CollectorChangesOnlyInCollect ==
    /\ Errors(heap, coll) = <<>> /\ CollectorIsValid
    /\ [][collects' = collects => Errors(heap', coll') = Errors(heap, coll)]_vars
    /\ [][collects' = collects + 1 =>
            /\ Len(Errors(heap', coll')) >= Len(Errors(heap, coll))
            /\ SubSeq(Errors(heap', coll'), 1, Len(Errors(heap, coll)))
                  = Errors(heap, coll)]_vars

\* After two Collect calls a new Value was constructed and validated and the
\* Collector's list was read: it is still the list the Collect calls built.
C13_Witness ==
    /\ last.op = "Validate" /\ Len(Errors(heap, Result)) = 1
    /\ Len(collected) = 2 /\ collected[1] # <<>>
    /\ held = coll.errs
    /\ Len(Errors(heap, coll)) > Len(collected[1])

\* Some check or mapper of the last Validate or Transform call failed.
LastCallFailed ==
    \/ last.op = "Validate" /\ \E k \in 1..Len(last.fns) : CheckResults[k] # NoErr
    \/ last.op = "Transform" /\ \E k \in 1..Len(last.trace) : Fails(k)

\* C14: IsValid() of a Value is true exactly when its error list is empty; a
\* Value just constructed has an empty list, is valid and holds the
\* constructor's argument; a Validate or Transform call returns an invalid
\* Value exactly when its receiver was invalid or one of its fns failed, so
\* validity never comes back along a chain.
C14_IsValidIffNoErrors ==
    /\ \A j \in Slots : IsValid(vals[j]) <=> Errors(heap, vals[j]) = <<>>
    /\ steps = 0 => \A j \in Slots : IsValid(vals[j]) /\ Value(vals[j]) \in InputStrings
    /\ last.op = "Val" =>
          /\ Errors(heap, Result) = <<>>
          /\ IsValid(Result)
          /\ Value(Result) = last.ret
    /\ (last.op \in {"Validate", "Transform"} /\ CallReturned) =>
          (~IsValid(Result) <=> (last.pre.errs # <<>> \/ LastCallFailed))

\* An invalid Value transformed by mappers that all succeed: still invalid.
C14_Witness ==
    /\ last.op = "Transform" /\ CallReturned
    /\ last.pre.errs # <<>>
    /\ Len(last.fns) > 0 /\ \A k \in 1..Len(last.fns) : Succeeds(k)
    /\ ~IsValid(Result) /\ Errors(heap, Result) = last.pre.errs

\* The name Val gives a Value constructed with the variadic argument name.
NameFor(name) ==
    CASE name = <<>> -> "value"
      [] name = <<"">> -> "value"
      [] name = <<"age">> -> "age"
      [] name = <<"age", "years">> -> "age"
      [] name = <<"", "years">> -> "value"

\* C15: Val gives the Value the first supplied name when it is non-empty and
\* "value" otherwise; the name is never empty, and Validate, Transform and
\* Collect leave it as it was.
C15_NameSetOnceByVal ==
    /\ \A j \in Slots : Name(vals[j]) \in {"value", "age"}
    /\ last.op = "Val" => Name(Result) = NameFor(last.fns)
    /\ (last.op \in {"Validate", "Transform"} /\ CallReturned) =>
          Name(Result) = last.pre.name
    /\ last.op = "Collect" => Name(vals[last.src]) = last.pre.name

\* Val was called with an empty first name and a second name: the Value is
\* named "value".
C15_Witness ==
    /\ last.op = "Val" /\ last.fns = <<"", "years">>
    /\ Name(Result) = "value"

\* The check of the last Validate call of a run of SpecChecks, the value it
\* was applied to and the errors the call added.
TheCheck == last.fns[1]
Held == last.pre.value
Added == Errors(heap, Result)
Checked(kinds) == last.op = "Validate" /\ TheCheck.kind \in kinds

\* C16: Validate(Required) adds exactly one error when the value is the zero
\* value of its type ("" or 0) and none otherwise.
C16_RequiredRejectsZeroValue ==
    /\ Checked({"Required"}) => Len(Added) = (IF Held = <<>> THEN 1 ELSE 0)
    /\ Checked({"Required[int]"}) => Len(Added) = (IF Held = 0 THEN 1 ELSE 0)

\* Required passed a negative integer.
C16_Witness ==
    /\ Checked({"Required[int]"}) /\ Held < 0 /\ Added = <<>>

\* C17: on integers, Min(m) fails exactly when the value is below m and
\* Max(m) exactly when it is above m; the value m itself passes both.
C17_MinMaxCompareWithBound ==
    /\ Checked({"Min"}) => Len(Added) = (IF Held < TheCheck.bound THEN 1 ELSE 0)
    /\ Checked({"Max"}) => Len(Added) = (IF Held > TheCheck.bound THEN 1 ELSE 0)
    /\ Checked({"Min", "Max"}) => (Held = TheCheck.bound => Added = <<>>)

\* Min(m) passed the value m, for a negative m.
C17_Witness ==
    /\ Checked({"Min"}) /\ Held = TheCheck.bound /\ Held < 0 /\ Added = <<>>

\* The number of elements of the value the last check was applied to: bytes of
\* a string, elements of a slice, keys of a map.
Count ==
    IF TheCheck.kind \in {"MinLengthMap", "MaxLengthMap"}
    THEN Cardinality(DOMAIN Held) ELSE Len(Held)

\* C18: MinLengthString/Slice/Map(n) fails exactly when the container has
\* fewer than n elements and MaxLengthString/Slice/Map(n) exactly when it has
\* more; a container of exactly n elements passes both.
C18_LengthComparesWithBound ==
    /\ Checked({"MinLengthString", "MinLengthSlice", "MinLengthMap"}) =>
          Len(Added) = (IF Count < TheCheck.bound THEN 1 ELSE 0)
    /\ Checked({"MaxLengthString", "MaxLengthSlice", "MaxLengthMap"}) =>
          Len(Added) = (IF Count > TheCheck.bound THEN 1 ELSE 0)

\* MinLengthSlice(n) passed a slice of exactly n > 0 elements.
C18_Witness ==
    /\ Checked({"MinLengthSlice"})
    /\ Len(Held) = TheCheck.bound /\ TheCheck.bound > 0
    /\ Added = <<>>

\* The last check was made with a non-empty custom message.
HasCustomMsg == Len(TheCheck.msg) > 0 /\ TheCheck.msg[1] # ""
AllKinds == { "Required", "Required[int]", "Min", "Max", "Email",
              "MinLengthString", "MinLengthSlice", "MinLengthMap",
              "MaxLengthString", "MaxLengthSlice", "MaxLengthMap" }

\* C19: a failing built-in check made with a non-empty custom message returns
\* an error whose text is exactly that message.
C19_CustomMessageVerbatim ==
    (Checked(AllKinds) /\ HasCustomMsg /\ Added # <<>>) =>
        Added = << <<TheCheck.msg[1]>> >>

\* Email failed with the custom message "%s": the error text is "%s".
C19_Witness ==
    /\ Checked({"Email"}) /\ TheCheck.msg = <<"%s">>
    /\ Added = << <<"%s">> >>

\* The default message of check fn on a Value named name.
DefaultText(fn, name) ==
    CASE fn.kind \in {"Required", "Required[int]"} -> name \o " is required"
      [] fn.kind = "Max" -> name \o " cannot be larger than " \o ToString(fn.bound)
      [] fn.kind = "Min" -> name \o " cannot be smaller than " \o ToString(fn.bound)
      [] fn.kind \in {"MaxLengthString", "MaxLengthSlice", "MaxLengthMap"} ->
            name \o "'s length cannot be larger than " \o ToString(fn.bound)
      [] fn.kind \in {"MinLengthString", "MinLengthSlice", "MinLengthMap"} ->
            name \o "'s length cannot be smaller than " \o ToString(fn.bound)
      [] fn.kind = "Email" -> name \o " must be in correct email format"

\* C20: a failing built-in check made without a custom message, or with an
\* empty one, returns the default message built from the Value's name and the
\* bound; the name is the one given to Val, or "value".
C20_DefaultMessage ==
    (Checked(AllKinds) /\ ~HasCustomMsg /\ Added # <<>>) =>
        /\ Added = << <<DefaultText(TheCheck, last.pre.name)>> >>
        /\ last.pre.name \in {"value", "age"}

\* Max(1) with an empty custom message failed on a Value named "age".
C20_Witness ==
    /\ Checked({"Max"}) /\ TheCheck.bound = 1 /\ TheCheck.msg = <<"">>
    /\ Added = << <<"age cannot be larger than 1">> >>

\* C21: Validate(Email()) adds no error for "test@example.com" and for the
\* address with U+00EB in its local part, and exactly one for "not-an-email".
C21_EmailExamples ==
    Checked({"Email"}) =>
        /\ Held \in {TestEmail, UnicodeEmail} => Added = <<>>
        /\ Held = NotAnEmail => Len(Added) = 1

C21_Witness ==
    /\ Checked({"Email"}) /\ Held = UnicodeEmail /\ Added = <<>>

\* What the checks fns return on a Value holding value under the name of the
\* receiver of the last call.
ChecksOn(fns, value) ==
    NonNil([k \in 1..Len(fns) |-> CallCheck(fns[k], [Receiver EXCEPT !.value = value])])

\* C22: a Validate call evaluates its checks on the value held when it is
\* called.  After Transform(t) the checks see t(x); a Validate call made
\* before Transform(t) saw x, and its errors stay as they are.  " hello "
\* transformed with TrimSpace, Uppercase and validated with Required ends as
\* "HELLO" with no error.
C22_ValidateSeesValueAtCall ==
    /\ [][(last.op = "Transform" /\ last'.op = "Validate" /\ steps' = steps + 1) =>
            LET tx == Compose(last.fns, last.pre.value)
            IN /\ \A k \in 1..Len(last'.fns) : last'.trace[k] = tx
               /\ vals'[1].value = tx
               /\ Errors(heap', vals'[1]) = last.pre.errs \o ChecksOn(last'.fns, tx)]_vars
    /\ [][(last.op = "Validate" /\ last'.op = "Transform" /\ steps' = steps + 1) =>
            LET x == last.pre.value
            IN /\ \A k \in 1..Len(last.fns) : last.trace[k] = x
               /\ vals'[1].value = Compose(last'.fns, x)
               /\ Errors(heap', vals'[1]) = last.pre.errs \o ChecksOn(last.fns, x)]_vars
    /\ [][(/\ steps = 1 /\ last.op = "Transform"
            /\ last.pre.value = HelloPadded /\ last.fns = <<TrimSpace, Uppercase>>
            /\ last'.op = "Validate" /\ last'.fns = <<Required(<<>>)>>) =>
            (vals'[1].value = HelloUpper /\ Errors(heap', vals'[1]) = <<>>)]_vars

\* " hello " after Transform(TrimSpace, Uppercase).Validate(Required).
C22_Witness ==
    /\ steps = 2 /\ last.op = "Validate" /\ last.fns = <<Required(<<>>)>>
    /\ vals[2].value = HelloPadded
    /\ vals[1].value = HelloUpper /\ Errors(heap, vals[1]) = <<>>

\* x has no white space at either end.
Trimmed(x) ==
    x = <<>> \/ (x[1] \notin {" ", "\t", "\n", "\r"} /\ x[Len(x)] \notin {" ", "\t", "\n", "\r"})

\* C23: Uppercase applied to the result of Uppercase returns it unchanged, and
\* TrimSpace applied to a string without white space at its ends returns it
\* unchanged.
C23_UppercaseIdempotentTrimSpaceNoOp ==
    (last.op = "Transform" /\ CallReturned) =>
        /\ \A k \in 1..(Len(last.fns) - 1) :
              (last.fns[k] = Uppercase /\ last.fns[k + 1] = Uppercase) =>
                  HeldAfter(k + 1) = HeldAfter(k)
        /\ \A k \in 1..Len(last.fns) :
              (last.fns[k] = TrimSpace /\ Trimmed(last.trace[k])) =>
                  HeldAfter(k) = last.trace[k]

\* Uppercase twice on a string with a lower-case letter and U+00EB.
C23_Witness ==
    /\ last.op = "Transform" /\ CallReturned
    /\ last.fns = <<Uppercase, Uppercase>>
    /\ last.pre.value = <<"a", "C3", "AB">>
    /\ last.trace[2] = <<"A", "C3", "8B">>
    /\ Result.value = last.trace[2]

\* C24: a Transform call given only built-in mappers that returns, returns a
\* Value with the error list the receiver had.
C24_BuiltinMappersAddNoError ==
    (/\ last.op = "Transform" /\ CallReturned
     /\ \A k \in 1..Len(last.fns) : last.fns[k] \in StringMappers) =>
        Errors(heap, Result) = last.pre.errs

\* A Value with errors went through Capitalise and another built-in.
C24_Witness ==
    /\ last.op = "Transform" /\ CallReturned
    /\ Len(last.fns) = 2 /\ last.fns[1] = Capitalise /\ last.fns[2] \in StringMappers
    /\ last.pre.errs # <<>>
    /\ Result.value # last.pre.value
    /\ Errors(heap, Result) = last.pre.errs

\* The text x with its first character upper-cased and the others lower-cased.
CapitalisedByRune(x) ==
    LET rs == Runes(x)
    IN Encode([k \in 1..Len(rs) |-> IF k = 1 THEN ToUpperRune(rs[k]) ELSE ToLowerRune(rs[k])])
\* The bytes of x with the first one upper-cased and the others lower-cased,
\* a byte that is no ASCII letter staying as it is.
CapitalisedByByte(x) ==
    [k \in 1..Len(x) |-> IF k = 1 THEN ToUpperRune(x[k]) ELSE ToLowerRune(x[k])]

\* C25: Capitalise on a non-empty string returns its first unit upper-cased
\* followed by the remainder lower-cased, the unit read as a character or as
\* a byte.
C25_CapitaliseFirstUnit ==
    (/\ last.op = "Transform" /\ CallReturned
     /\ last.fns = <<Capitalise>> /\ last.pre.value # <<>>) =>
        Result.value \in {CapitalisedByRune(last.pre.value), CapitalisedByByte(last.pre.value)}

\* C29: after w = v.Validate(...) or w = v.Transform(...), v reports the
\* value, the name, the validity and the number of errors it reported before
\* the call; the value and the errors of the call are in w.
C29_ReceiverUnchanged ==
    (last.op \in {"Validate", "Transform"} /\ last.src # last.dst) =>
        /\ Value(vals[last.src]) = last.pre.value
        /\ Name(vals[last.src]) = last.pre.name
        /\ IsValid(vals[last.src]) = (last.pre.errs = <<>>)
        /\ Len(Errors(heap, vals[last.src])) = Len(last.pre.errs)

\* A call returned a Value with another value or more errors than its
\* receiver, which reports what it did.
C29_Witness ==
    /\ last.op \in {"Validate", "Transform"} /\ last.src # last.dst /\ CallReturned
    /\ Len(Errors(heap, Result)) > Len(last.pre.errs)
    /\ IsValid(vals[last.src]) /\ ~IsValid(Result)
    /\ Snapshot(heap, vals[last.src]) = last.pre

\* C30: a second v.Collect(c) right after the first appends v's errors
\* again, and returns the value the first returned.
C30_CollectTwiceAppendsTwice ==
    [][(/\ last.op = "Collect" /\ last'.op = "Collect"
        /\ collects' = collects + 1 /\ last'.src = last.src) =>
           /\ Errors(heap', coll') = last.precoll \o last.pre.errs \o last.pre.errs
           /\ Len(Errors(heap', coll')) = Len(last.precoll) + 2 * Len(last.pre.errs)
           /\ last'.ret = last.ret
           /\ last'.ret = Value(vals[last.src])]_vars

\* The same Value with errors was collected twice.
C30_Witness ==
    /\ last.op = "Collect" /\ Len(collected) = 2
    /\ collected[1] # <<>> /\ collected[2] = collected[1]
    /\ last.pre.errs = collected[1]
    /\ Errors(heap, coll) = collected[1] \o collected[1]

\* The places of the text rs where c stands.
Places(rs, c) == { k \in 1..Len(rs) : rs[k] = c }
\* The label after the last dot of rs.
LastLabel(rs) ==
    LET j == CHOOSE d \in Places(rs, ".") : \A e \in Places(rs, ".") : e <= d
    IN SubSeq(rs, j + 1, Len(rs))
OnlyLettersOrMarks(l) == \A k \in 1..Len(l) : l[k] \in Letters \cup Marks

\* C27: a text Email accepts has a non-empty local part, an "@", a dot after
\* it, and a last label of two or more letters or marks; a text without "@",
\* beginning with "@", without a dot after its "@", or with a last label that
\* is shorter than two or holds a digit is rejected.
C27_EmailAcceptsOnlyAddresses ==
    Checked({"Email"}) =>
        LET rs == Runes(Held)
            ats == Places(rs, "@")
            accepted == Added = <<>>
        IN /\ accepted =>
                \E i \in ats :
                    /\ i > 1
                    /\ \E j \in Places(rs, ".") : j > i + 1
                    /\ Len(LastLabel(rs)) >= 2
                    /\ OnlyLettersOrMarks(LastLabel(rs))
           /\ ats = { } => ~accepted
           /\ (rs # <<>> /\ rs[1] = "@") => ~accepted
           /\ (\A i \in ats : \A j \in Places(rs, ".") : j < i) => ~accepted
           /\ (Places(rs, ".") # { } /\ Len(LastLabel(rs)) < 2) => ~accepted
           /\ (Places(rs, ".") # { } /\ \E k \in 1..Len(LastLabel(rs)) :
                                            LastLabel(rs)[k] \in Numbers) => ~accepted
           /\ ~accepted => Len(Added) = 1

\* Email accepted a text whose quoted local part holds an "@".
C27_Witness ==
    /\ Checked({"Email"}) /\ Held = QuotedAt /\ Added = <<>>

\* What Errors() of the Collector c reports; nothing that can be relied on
\* when its slice header is torn.
Reported(c) ==
    IF Sound(heap, thr.colls[c].errs) THEN Errors(heap, thr.colls[c]) ELSE << "torn" >>
AllIdle == \A t \in Slots : thr.pc[t] = "idle"

\* C26: with a Collector and Values of its own for each goroutine, whenever a
\* goroutine is outside Collect its Collector holds the errors of the Values
\* it collected, in the order of its Collect calls, and nothing else, whatever
\* the other goroutine did in between.
C26_RecordsIndependent ==
    /\ ~thr.corrupt
    /\ \A t \in Slots : ~thr.torn[t]
    /\ \A t \in Slots :
          thr.pc[t] = "idle" =>
              /\ Reported(thr.target[t]) = Flatten(thr.collected[t])
              /\ thr.ncollect[t] > 0 => thr.ret[t] = thr.recv[t].value

\* Both goroutines validated their record and collected it twice, their
\* Collect calls overlapping.
C26_Witness ==
    /\ AllIdle /\ thr.overlap
    /\ \A t \in Slots :
          /\ thr.ncollect[t] = 2
          /\ thr.collected[t][1] # <<>>
          /\ Reported(thr.target[t]) = thr.collected[t][1] \o thr.collected[t][2]
    /\ Reported(1) # Reported(2)

\* C28: Collect on a shared Collector writes back the list it read with the
\* Value's errors appended, whatever the Collector holds by then; calls that
\* do not overlap lose nothing.
C28_SharedCollectNotAtomic ==
    /\ [](thr.corrupt => thr.overlap)
    /\ []((AllIdle /\ ~thr.overlap) =>
              Len(Reported(1)) = SumLen(thr.collected[1]) + SumLen(thr.collected[2]))
    /\ [][\A t \in Slots :
            (thr.pc[t] = "store" /\ thr'.pc[t] = "idle" /\ ~thr'.torn[t]) =>
                /\ thr'.colls[thr.target[t]].errs = thr.hdr[t]
                /\ thr.hdr[t].len = thr.base[t] + Len(Errors(heap, thr.recv[t]))
                /\ thr'.ret[t] = thr.recv[t].value]_vars

\* Both goroutines collected a Value with errors into the one Collector; it
\* holds the errors of the second goroutine only.
C28_Witness ==
    /\ AllIdle /\ ~thr.corrupt
    /\ \A t \in Slots : thr.ncollect[t] = 1 /\ thr.collected[t][1] # <<>> /\ ~thr.torn[t]
    /\ thr.target = [t \in Slots |-> 1]
    /\ Reported(1) = thr.collected[2][1]
    /\ \A k \in 1..Len(thr.collected[1][1]) :
          \A n \in 1..Len(Reported(1)) : Reported(1)[n] # thr.collected[1][1][k]
====
